---- MODULE Spec2Model ----
(***************************************************************************)
(* A model of love::graphics::Font (src/modules/graphics/Font.cpp): the    *)
(* glyph atlas (createTexture / addGlyph / findGlyph), the kerning cache,  *)
(* the rasterizer fallback chain and the vertex generator.                 *)
(*                                                                         *)
(* The font is single threaded and every public method runs to completion, *)
(* so each method is one action.  Methods that call each other             *)
(* (addGlyph <-> createTexture) are operators on a record f holding the    *)
(* font's fields.  The glyph cache is a hash map whose iteration order is  *)
(* not fixed, so createTexture, and everything that may call it, yields    *)
(* the SET of fonts the call may end in.                                   *)
(***************************************************************************)
EXTENDS Integers, Sequences, FiniteSets, TLC

VARIABLES
    maxsize,          \* gfx->getCapabilities().limits[LIMIT_TEXTURE_SIZE]
    height,           \* rasterizers[0]->getHeight()
    profile,          \* which glyph tables the rasterizers serve
    rasterizers,      \* Font::rasterizers, primary first
    textureWidth,     \* Font::textureWidth
    textureHeight,    \* Font::textureHeight
    textures,         \* Font::textures, each [id, width, height]
    textureX,         \* packing cursor
    textureY,
    rowHeight,
    glyphs,           \* Font::glyphs, codepoint -> Glyph
    kerning,          \* Font::kerning, <<left, right>> -> float
    textureCacheID,   \* Font::textureCacheID (uint32; it stays far below 2^32 here)
    nextTexture,      \* identity of the next texture gfx->newTexture returns
    loads,            \* how many times loadVolatile ran after construction
    call              \* the last method call: its name, argument, result and trace

vars == <<maxsize, height, profile, rasterizers, textureWidth, textureHeight,
          textures, textureX, textureY, rowHeight, glyphs, kerning,
          textureCacheID, nextTexture, loads, call>>

-----------------------------------------------------------------------------
(* Bounds of the model.                                                    *)

MaxLoads == 1
MaxFallbacks == 2
MaxLen == 3
MaxKerning == 2

-----------------------------------------------------------------------------
(* Program constants.                                                      *)

InitialTextureSize == 128
HardMaxWidth == 8192
HardMaxHeight == 4096
TEXTURE_PADDING == 2
SPACES_PER_TAB == 4

TAB == 9
NEWLINE == 10
CR == 13
SPACE == 32
CpA == 97
CpB == 98
CpC == 99
CpD == 100

NoTexture == 0

Min(a, b) == IF a < b THEN a ELSE b
Max(a, b) == IF a > b THEN a ELSE b

\* floorf(a / d + 0.5f) for an integer a and a positive integer d
RoundDiv(a, d) == (2 * a + d) \div (2 * d)

EmptyMap == [x \in {} |-> 0]

RECURSIVE Perms(_)
Perms(S) ==
    IF S = {} THEN {<<>>}
    ELSE UNION {{<<x>> \o p : p \in Perms(S \ {x})} : x \in S}

-----------------------------------------------------------------------------
(* The rasterizers (external collaborators).  Rasterizer 1 is the font's   *)
(* own; 2, 3 and 4 are the primary rasterizers of the fonts that can be    *)
(* given to setFallbacks.  Rasterizer 4 has another data type.             *)

PrimaryRasterizer == 1
FallbackFonts == {2, 3, 4}

RasDataType(r) == IF r = 4 THEN "image" ELSE "truetype"

RasDPIScale(r) == CASE r = 1 -> 1 [] r = 2 -> 2 [] r = 3 -> 4 [] OTHER -> 1

RasHasGlyph(r, c) ==
    CASE r = 1 -> c \in {SPACE, CpA, CpB} \/ (c = TAB /\ profile = 2)
      [] r = 2 -> c \in {SPACE, CpA, CpC}
      [] r = 3 -> c \in {CpB, CpC}
      [] OTHER -> c = CpC

Gd(w, h, a) == [width |-> w, height |-> h, advance |-> a]

\* getGlyphData: a rasterizer asked for a codepoint it lacks returns its
\* substitute glyph.
RasGlyphData(r, c) ==
    IF profile = 1 THEN
        CASE r = 1 /\ c = CpA -> Gd(120, 20, 10)
          [] r = 1 /\ c = CpB -> Gd(120, 100, 10)
          [] r = 1 /\ c = CpC -> Gd(120, 30, 10)
          [] r = 1 -> Gd(0, 0, 10)
          [] r = 2 /\ c = CpC -> Gd(100, 110, 21)
          [] r = 2 -> Gd(0, 0, 21)
          [] r = 3 /\ c = CpC -> Gd(50, 50, 30)
          [] r = 3 -> Gd(0, 0, 30)
          [] OTHER -> Gd(10, 10, 10)
    ELSE IF profile = 3 /\ r = 1 THEN
        CASE c \in {CpA, CpB, CpC} -> Gd(123, 123, 10)
          [] c = CpD -> Gd(130, 30, 10)
          [] OTHER -> Gd(0, 0, 10)
    ELSE
        CASE r = 1 /\ c = CpA -> Gd(60, 60, 10)
          [] r = 1 /\ c = CpB -> Gd(60, 60, 12)
          [] r = 1 /\ c = CpC -> Gd(130, 10, 10)
          [] r = 1 /\ c = TAB -> Gd(0, 0, 40)
          [] r = 1 -> Gd(0, 0, 10)
          [] r = 2 /\ c = CpC -> Gd(60, 130, 21)
          [] r = 2 -> Gd(0, 0, 21)
          [] r = 3 /\ c = CpC -> Gd(200, 200, 30)
          [] r = 3 -> Gd(0, 0, 30)
          [] OTHER -> Gd(10, 10, 10)

RasKerning(r, l, c) ==
    CASE r = 1 /\ l = CpA /\ c = CpB /\ profile = 2 -> 0 - 2
      [] r = 1 /\ l = CpC /\ c = CpD /\ profile = 2 -> 0 - 12
      [] r = 2 /\ l = CpA /\ c = CpC -> 3
      [] r = 3 /\ l = CpB /\ c = CpC -> 0 - 6
      [] OTHER -> 0

-----------------------------------------------------------------------------
(* The trace of one method call: the rasterizer queries it made, the       *)
(* createTexture calls it made, how often addGlyph retried, and the values *)
(* of textureCacheID and of the texture size when the call began.          *)

EmptyLog ==
    [rq |-> <<>>, creates |-> <<>>, retry |-> 0, cacheid0 |-> 0,
     width0 |-> 0, height0 |-> 0]

Query(fn, r, c) == [fn |-> fn, r |-> r, c |-> c]

Self ==
    [rasterizers |-> rasterizers, textureWidth |-> textureWidth,
     textureHeight |-> textureHeight, textures |-> textures,
     textureX |-> textureX, textureY |-> textureY, rowHeight |-> rowHeight,
     glyphs |-> glyphs, kerning |-> kerning, textureCacheID |-> textureCacheID,
     nextTexture |-> nextTexture,
     log |-> [EmptyLog EXCEPT !.cacheid0 = textureCacheID,
                              !.width0 = textureWidth,
                              !.height0 = textureHeight]]

Install(f) ==
    /\ rasterizers' = f.rasterizers
    /\ textureWidth' = f.textureWidth
    /\ textureHeight' = f.textureHeight
    /\ textures' = f.textures
    /\ textureX' = f.textureX
    /\ textureY' = f.textureY
    /\ rowHeight' = f.rowHeight
    /\ glyphs' = f.glyphs
    /\ kerning' = f.kerning
    /\ textureCacheID' = f.textureCacheID
    /\ nextTexture' = f.nextTexture

Env == <<maxsize, height, profile>>

\* Font::dpiScale and Font::useSpacesAsTab are set once by the constructor.
dpiScale == RasDPIScale(PrimaryRasterizer)
useSpacesAsTab == ~RasHasGlyph(PrimaryRasterizer, TAB)

-----------------------------------------------------------------------------
(* Font::getNextTextureSize                                                *)

\* Faulty variant: the platform limit is not consulted.
GetNextTextureSizeNoLimit(f) ==
    IF f.textureWidth * 2 <= HardMaxWidth \/ f.textureHeight * 2 <= HardMaxHeight
    THEN IF f.textureWidth = f.textureHeight
         THEN [width |-> f.textureWidth * 2, height |-> f.textureHeight]
         ELSE [width |-> f.textureWidth, height |-> f.textureHeight * 2]
    ELSE [width |-> f.textureWidth, height |-> f.textureHeight]

\* Faulty variant: the height is doubled first.
GetNextTextureSizeHeightFirst(f) ==
    LET maxwidth == Min(HardMaxWidth, maxsize)
        maxheight == Min(HardMaxHeight, maxsize)
    IN  IF f.textureWidth * 2 <= maxwidth \/ f.textureHeight * 2 <= maxheight
        THEN IF f.textureWidth = f.textureHeight
             THEN [width |-> f.textureWidth, height |-> f.textureHeight * 2]
             ELSE [width |-> f.textureWidth * 2, height |-> f.textureHeight]
        ELSE [width |-> f.textureWidth, height |-> f.textureHeight]

GetNextTextureSize(f) ==
    LET maxwidth == Min(HardMaxWidth, maxsize)
        maxheight == Min(HardMaxHeight, maxsize)
    IN  IF f.textureWidth * 2 <= maxwidth \/ f.textureHeight * 2 <= maxheight
        THEN IF f.textureWidth = f.textureHeight
             THEN [width |-> f.textureWidth * 2, height |-> f.textureHeight]
             ELSE [width |-> f.textureWidth, height |-> f.textureHeight * 2]
        ELSE [width |-> f.textureWidth, height |-> f.textureHeight]

-----------------------------------------------------------------------------
(* Font::getRasterizerGlyphData: the glyph data, the DPI scale it is       *)
(* scaled by, the rasterizer both came from and the queries made.          *)

\* Faulty variant: the DPI scale stays the font's own (the initial value of
\* glyphdpiscale in addGlyph).
FromRasterizerOwnDPI(r, glyph) ==
    [ras |-> r, dpiscale |-> dpiScale, gd |-> RasGlyphData(r, glyph),
     rq |-> <<Query("getGlyphData", r, glyph)>>]

\* dpiscale = r->getDPIScale(); return r->getGlyphData(glyph);
FromRasterizer(r, glyph) ==
    [ras |-> r, dpiscale |-> RasDPIScale(r), gd |-> RasGlyphData(r, glyph),
     rq |-> <<Query("getGlyphData", r, glyph)>>]

RECURSIVE ChainLookup(_, _, _, _)
ChainLookup(rs, glyph, i, asked) ==
    IF i > Len(rs)
    THEN [FromRasterizer(rs[1], glyph) EXCEPT !.rq = asked \o @]
    ELSE IF RasHasGlyph(rs[i], glyph)
    THEN [FromRasterizer(rs[i], glyph) EXCEPT
              !.rq = asked \o <<Query("hasGlyph", rs[i], glyph)>> \o @]
    ELSE ChainLookup(rs, glyph, i + 1,
                     Append(asked, Query("hasGlyph", rs[i], glyph)))

GetRasterizerGlyphData(f, glyph) ==
    IF glyph = TAB /\ useSpacesAsTab
    THEN LET spacegd == RasGlyphData(f.rasterizers[1], SPACE)
         IN  [ras |-> f.rasterizers[1],
              dpiscale |-> RasDPIScale(f.rasterizers[1]),
              gd |-> Gd(0, 0, spacegd.advance * SPACES_PER_TAB),
              rq |-> <<Query("getGlyphData", f.rasterizers[1], SPACE)>>]
    ELSE ChainLookup(f.rasterizers, glyph, 1, <<>>)

-----------------------------------------------------------------------------
(* Font::addGlyph and Font::createTexture                                  *)

\* Lines 286-361 of addGlyph: build the Glyph, upload it at the cursor and
\* advance the cursor.
PlaceGlyph(f, glyph, q) ==
    LET w == q.gd.width
        h == q.gd.height
        spacing == RoundDiv(q.gd.advance, q.dpiscale)
        texture == f.textures[Len(f.textures)]
        g == IF w > 0 /\ h > 0
             THEN [texture |-> texture.id, spacing |-> spacing,
                   x |-> f.textureX, y |-> f.textureY, w |-> w, h |-> h,
                   tw |-> f.textureWidth, th |-> f.textureHeight,
                   dpiscale |-> q.dpiscale]
             ELSE [texture |-> NoTexture, spacing |-> spacing,
                   x |-> 0, y |-> 0, w |-> 0, h |-> 0, tw |-> 0, th |-> 0,
                   dpiscale |-> 0]
        f1 == IF w > 0 /\ h > 0
              THEN [f EXCEPT !.textureX = @ + w + TEXTURE_PADDING,
                             !.rowHeight = Max(@, h + TEXTURE_PADDING)]
              ELSE f
    IN  [f1 EXCEPT !.glyphs = (glyph :> g) @@ @]

\* Faulty variant: both paths of createTexture increment the counter.
CacheIDAlwaysIncremented(id, recreatetexture) == id + 1

\* Lines 203-205 of createTexture.
CacheIDAfterCreate(id, recreatetexture) ==
    IF recreatetexture THEN id + 1 ELSE id

\* Faulty variant: the texture that is replaced stays in the list.
KeptTexturesAll(f, recreatetexture) == f.textures

\* Faulty variant: every glyph is taken to fit the texture.
FitsTextureUnchecked(f, w, h) == TRUE

\* Line 265: the glyph and its padding are smaller than the texture.
FitsTexture(f, w, h) ==
    /\ w + TEXTURE_PADDING * 2 < f.textureWidth
    /\ h + TEXTURE_PADDING * 2 < f.textureHeight

\* Faulty variant: the last texture is dropped also when one is appended.
KeptTexturesPopped(f, recreatetexture) ==
    SubSeq(f.textures, 1, Len(f.textures) - 1)

\* Line 154: textures.pop_back() when the texture is replaced.
KeptTextures(f, recreatetexture) ==
    IF recreatetexture
    THEN SubSeq(f.textures, 1, Len(f.textures) - 1)
    ELSE f.textures

RECURSIVE AddGlyph(_, _, _)
RECURSIVE CreateTexture(_, _)
RECURSIVE ReAdd(_, _)

\* retry counts the calls of line 282 below the call being made.
AddGlyph(f, glyph, retry) ==
    LET q == GetRasterizerGlyphData(f, glyph)
        w == q.gd.width
        h == q.gd.height
        f0 == [f EXCEPT !.log.rq = @ \o q.rq, !.log.retry = Max(@, retry)]
        checked == FitsTexture(f0, w, h)
        newrow == checked /\ f0.textureX + w + TEXTURE_PADDING > f0.textureWidth
        f1 == IF newrow
              THEN [f0 EXCEPT !.textureX = TEXTURE_PADDING,
                              !.textureY = @ + f0.rowHeight,
                              !.rowHeight = TEXTURE_PADDING]
              ELSE f0
        full == checked /\ f1.textureY + h + TEXTURE_PADDING > f1.textureHeight
    IN  IF full
        THEN UNION {AddGlyph(x, glyph, retry + 1) :
                        x \in CreateTexture(f1, [glyph |-> glyph, retry |-> retry])}
        ELSE {PlaceGlyph(f1, glyph, q)}

\* Faulty variant: the glyphs of the replaced texture are not added again.
ReAddNothing(F, glyphstoadd) == F

\* The loop of lines 214-215 over the glyphs collected in lines 209-210.
ReAdd(F, glyphstoadd) ==
    IF glyphstoadd = <<>> THEN F
    ELSE ReAdd(UNION {AddGlyph(x, Head(glyphstoadd), 0) : x \in F},
               Tail(glyphstoadd))

\* caller names the addGlyph call that asked for the texture (glyph 0:
\* loadVolatile).
CreateTexture(f, caller) ==
    LET nextsize == GetNextTextureSize(f)
        recreatetexture ==
            /\ (nextsize.width > f.textureWidth \/ nextsize.height > f.textureHeight)
            /\ f.textures # <<>>
        size == IF recreatetexture THEN nextsize
                ELSE [width |-> f.textureWidth, height |-> f.textureHeight]
        kept == KeptTextures(f, recreatetexture)
        texture == [id |-> f.nextTexture, width |-> size.width, height |-> size.height]
        newid == CacheIDAfterCreate(f.textureCacheID, recreatetexture)
        f1 == [f EXCEPT !.textures = Append(kept, texture),
                        !.nextTexture = @ + 1,
                        !.textureWidth = size.width,
                        !.textureHeight = size.height,
                        !.rowHeight = TEXTURE_PADDING,
                        !.textureX = TEXTURE_PADDING,
                        !.textureY = TEXTURE_PADDING,
                        !.textureCacheID = newid,
                        !.log.creates = Append(@,
                            [recreate |-> recreatetexture,
                             caller |-> caller,
                             ntextures |-> Len(f.textures),
                             oldwidth |-> f.textureWidth,
                             oldheight |-> f.textureHeight,
                             width |-> size.width, height |-> size.height,
                             before |-> f.textureCacheID, after |-> newid])]
    IN  IF recreatetexture
        THEN UNION {ReAdd({[f1 EXCEPT !.glyphs = EmptyMap]}, order) :
                        order \in Perms(DOMAIN f.glyphs)}
        ELSE {f1}

\* Faulty variant: the cache is not consulted.
FindGlyphAlwaysAdd(f, glyph) == AddGlyph(f, glyph, 0)

\* Font::findGlyph
FindGlyphIn(f, glyph) ==
    IF glyph \in DOMAIN f.glyphs THEN {f} ELSE AddGlyph(f, glyph, 0)

\* Font::loadVolatile
LoadVolatileIn(f) ==
    CreateTexture([f EXCEPT !.textureCacheID = @ + 1,
                            !.glyphs = EmptyMap,
                            !.textures = <<>>],
                  [glyph |-> 0, retry |-> 0])

\* Faulty variant: the kerning cache is dropped with the glyph cache.
UnloadVolatileClearsKerning(f) ==
    [f EXCEPT !.glyphs = EmptyMap, !.textures = <<>>, !.kerning = EmptyMap]

\* Font::unloadVolatile
UnloadVolatileIn(f) == [f EXCEPT !.glyphs = EmptyMap, !.textures = <<>>]

-----------------------------------------------------------------------------
(* Font::getKerning(uint32, uint32).  The key packs both codepoints into   *)
(* 64 bits, one half each, so it is the ordered pair.                      *)

RECURSIVE KerningLookup(_, _, _, _, _, _)
KerningLookup(rs, l, r, i, k, asked) ==
    IF i > Len(rs) THEN [k |-> k, rq |-> asked]
    ELSE IF ~RasHasGlyph(rs[i], l)
    THEN KerningLookup(rs, l, r, i + 1, k,
                       Append(asked, Query("hasGlyph", rs[i], l)))
    ELSE IF ~RasHasGlyph(rs[i], r)
    THEN KerningLookup(rs, l, r, i + 1, k,
                       asked \o <<Query("hasGlyph", rs[i], l),
                                  Query("hasGlyph", rs[i], r)>>)
    ELSE [k |-> RoundDiv(RasKerning(rs[i], l, r), RasDPIScale(rs[i])),
          rq |-> asked \o <<Query("hasGlyph", rs[i], l),
                            Query("hasGlyph", rs[i], r),
                            Query("getKerning", rs[i], r)>>]

GetKerningIn(f, leftglyph, rightglyph) ==
    LET packedglyphs == <<leftglyph, rightglyph>>
    IN  IF packedglyphs \in DOMAIN f.kerning
        THEN [f |-> f, k |-> f.kerning[packedglyphs]]
        ELSE LET k0 == RoundDiv(RasKerning(f.rasterizers[1], leftglyph, rightglyph),
                                dpiScale)
                 res == KerningLookup(f.rasterizers, leftglyph, rightglyph, 1, k0,
                            <<Query("getKerning", f.rasterizers[1], rightglyph)>>)
             IN  [f |-> [f EXCEPT !.kerning = (packedglyphs :> res.k) @@ @,
                                  !.log.rq = @ \o res.rq],
                  k |-> res.k]

-----------------------------------------------------------------------------
(* Font::setFallbacks.  A fallback font is named by its primary            *)
(* rasterizer.  ok is FALSE when the call throws.                          *)

FallbackRasterizer(font) == font

RECURSIVE PushFallbacks(_, _)
PushFallbacks(rs, fallbacks) ==
    IF fallbacks = <<>> THEN rs
    ELSE PushFallbacks(Append(rs, FallbackRasterizer(Head(fallbacks))),
                       Tail(fallbacks))

\* Faulty variant: each fallback is checked just before it is pushed.
RECURSIVE PushChecked(_, _, _)
PushChecked(f, rs, fallbacks) ==
    IF fallbacks = <<>> THEN [f |-> [f EXCEPT !.rasterizers = rs], ok |-> TRUE]
    ELSE IF RasDataType(FallbackRasterizer(Head(fallbacks))) # RasDataType(rs[1])
    THEN [f |-> [f EXCEPT !.rasterizers = rs], ok |-> FALSE]
    ELSE PushChecked(f, Append(rs, FallbackRasterizer(Head(fallbacks))),
                     Tail(fallbacks))

SetFallbacksCheckedLate(f, fallbacks) ==
    PushChecked(f, SubSeq(f.rasterizers, 1, 1), fallbacks)

SetFallbacksIn(f, fallbacks) ==
    IF \E i \in 1..Len(fallbacks) :
          RasDataType(FallbackRasterizer(fallbacks[i])) # RasDataType(f.rasterizers[1])
    THEN [f |-> f, ok |-> FALSE]
    ELSE [f |-> [f EXCEPT !.rasterizers =
                     PushFallbacks(SubSeq(f.rasterizers, 1, 1), fallbacks)],
          ok |-> TRUE]

-----------------------------------------------------------------------------
(* Font::getHeight, Font::getAscent, Font::getBaseline                     *)

LineHeight == 1

GetHeight == RoundDiv(height, dpiScale)

RasAscent(r) == (height * 4) \div 5

GetAscent == RoundDiv(RasAscent(PrimaryRasterizer), dpiScale)

\* floorf(getHeight() / 1.25f + 0.5f) is floor((8 h + 5) / 10)
GetBaseline ==
    IF GetAscent # 0 THEN GetAscent
    ELSE IF RasDataType(PrimaryRasterizer) = "truetype"
    THEN (8 * GetHeight + 5) \div 10
    ELSE 0

-----------------------------------------------------------------------------
(* Font::generateVertices.  One quad of the model is the four vertices of  *)
(* one glyph, with the codepoint it was made for and the textureCacheID at *)
(* the time it was emitted.  A color is an opaque value; Blend(c, k) is the span color c *)
(* multiplied by the constant color k in linear space.                     *)

White == "white"

Blend(c, k) == <<c, k>>

ToColor32(k) == <<"constant", k>>

DrawLess(a, b) ==
    IF a.texture # b.texture THEN a.texture < b.texture
    ELSE a.startvertex < b.startvertex

\* Faulty variant: the commands are left in the order of the text.
SortCommandsKept(cmds) == cmds

\* std::sort with drawsort: no two commands have the same start vertex, so
\* the order is total and the result does not depend on the algorithm.
RECURSIVE SortCommands(_)
SortCommands(cmds) ==
    IF cmds = <<>> THEN <<>>
    ELSE LET m == CHOOSE i \in 1..Len(cmds) :
                      \A j \in 1..Len(cmds) : j = i \/ DrawLess(cmds[i], cmds[j])
         IN  <<cmds[m]>> \o SortCommands(SubSeq(cmds, 1, m - 1)
                                          \o SubSeq(cmds, m + 1, Len(cmds)))

\* The state of the walk at the top of the loop of line 498.
WalkStart(f, in, restarts) ==
    [f |-> f, i |-> 0, dx |-> in.offset[1], dy |-> in.offset[2], maxwidth |-> 0,
     commands |-> <<>>, vertices |-> in.vertices, prevglyph |-> 0,
     curcolori |-> 0 - 1, curcolor |-> ToColor32(in.constantcolor),
     restarts |-> restarts]

\* Lines 502-516.
WalkColor(w, in) ==
    IF /\ w.curcolori + 1 < Len(in.colors)
       /\ in.colors[w.curcolori + 2].index = w.i
    THEN [w EXCEPT !.curcolori = @ + 1,
                   !.curcolor = Blend(in.colors[w.curcolori + 2].color,
                                      in.constantcolor)]
    ELSE w

\* Lines 553-588: the glyph was found and the atlas did not change.
WalkEmit(w, in, g) ==
    LET kr == GetKerningIn(w.f, w.prevglyph, g)
        glyph == kr.f.glyphs[g]
        dx1 == w.dx + kr.k
        visible == glyph.texture # NoTexture
        quad == [g |-> g, glyph |-> glyph, x |-> dx1,
                 y |-> w.dy + in.heightoffset, color |-> w.curcolor,
                 cacheid |-> w.f.textureCacheID]
        vertices == IF visible THEN Append(w.vertices, quad) ELSE w.vertices
        opened == IF visible /\ (w.commands = <<>>
                                 \/ w.commands[Len(w.commands)].texture # glyph.texture)
                  THEN Append(w.commands,
                              [startvertex |-> 4 * Len(vertices) - 4,
                               vertexcount |-> 0, texture |-> glyph.texture])
                  ELSE w.commands
        commands == IF visible
                    THEN [opened EXCEPT ![Len(opened)].vertexcount = @ + 4]
                    ELSE opened
        dx2 == dx1 + glyph.spacing
        dx3 == IF g = SPACE /\ in.extra_spacing # 0 THEN dx2 + in.extra_spacing
               ELSE dx2
    IN  [w EXCEPT !.f = kr.f, !.dx = dx3, !.vertices = vertices,
                  !.commands = commands, !.prevglyph = g, !.i = w.i + 1]

\* Faulty variant: the walk goes on after the atlas changed.
WalkAfterFindNoRestart(w, f2, in, g) == WalkEmit([w EXCEPT !.f = f2], in, g)

\* Faulty variant: the walk restarts whenever the glyph was not cached.
WalkAfterFindRestartOnMiss(w, f2, in, g) ==
    IF g \notin DOMAIN w.f.glyphs
    THEN WalkStart(f2, in, w.restarts + 1)
    ELSE WalkEmit([w EXCEPT !.f = f2], in, g)

\* Faulty variant: the restart leaves the color cursor where it was.
WalkAfterFindKeepsColor(w, f2, in, g) ==
    IF f2.textureCacheID # w.f.textureCacheID
    THEN [WalkStart(f2, in, w.restarts + 1) EXCEPT !.curcolori = w.curcolori,
                                                   !.curcolor = w.curcolor]
    ELSE WalkEmit([w EXCEPT !.f = f2], in, g)

\* Lines 539-551: restart the walk when findGlyph changed textureCacheID.
WalkAfterFind(w, f2, in, g) ==
    IF f2.textureCacheID # w.f.textureCacheID
    THEN WalkStart(f2, in, w.restarts + 1)
    ELSE WalkEmit([w EXCEPT !.f = f2], in, g)

RECURSIVE Walk(_, _)
Walk(w0, in) ==
    IF w0.i >= Len(in.cps) THEN {w0}
    ELSE LET w == WalkColor(w0, in)
             g == in.cps[w.i + 1]
         IN  IF g = NEWLINE
             THEN UNION {Walk(x, in) : x \in
                     {[w EXCEPT !.maxwidth = Max(@, w.dx),
                                !.dy = @ + RoundDiv(GetHeight * LineHeight, 1),
                                !.dx = in.offset[1], !.prevglyph = 0,
                                !.i = @ + 1]}}
             ELSE IF g = CR
             THEN UNION {Walk(x, in) : x \in {[w EXCEPT !.i = @ + 1]}}
             ELSE UNION {Walk(x, in) : x \in
                     {WalkAfterFind(w, f2, in, g) : f2 \in FindGlyphIn(w.f, g)}}

GenerateVerticesIn(f, in0) ==
    LET in == [in0 EXCEPT !.heightoffset =
                   IF RasDataType(f.rasterizers[1]) = "truetype"
                   THEN GetBaseline ELSE 0]
    IN  {[f |-> w.f,
          commands |-> SortCommands(w.commands),
          vertices |-> w.vertices,
          restarts |-> w.restarts,
          info |-> [width |-> Max(w.maxwidth, w.dx) - in.offset[1],
                    height |-> w.dy + (IF w.dx > 0
                                       THEN RoundDiv(GetHeight * LineHeight, 1)
                                       ELSE 0) - in.offset[2]]]
         : w \in Walk(WalkStart(f, in, 0), in)}

\* The arguments of generateVertices.
GenInput(cps, colors, constantcolor, extra_spacing, offset, vertices) ==
    [cps |-> cps, colors |-> colors, constantcolor |-> constantcolor,
     extra_spacing |-> extra_spacing, offset |-> offset, vertices |-> vertices,
     heightoffset |-> 0]

-----------------------------------------------------------------------------
(* Font::getWidth.  A string is the sequence of its codepoints.            *)

\* getline(iss, line, '\n'): the pieces between newlines; nothing is read
\* after a final newline.
RECURSIVE GetLines(_)
GetLines(str) ==
    IF str = <<>> THEN <<>>
    ELSE IF \E k \in 1..Len(str) : str[k] = NEWLINE
    THEN LET k == CHOOSE j \in 1..Len(str) :
                      str[j] = NEWLINE /\ \A m \in 1..(j - 1) : str[m] # NEWLINE
         IN  <<SubSeq(str, 1, k - 1)>> \o GetLines(SubSeq(str, k + 1, Len(str)))
    ELSE <<str>>

\* Faulty variant: the kerning is left out of the width.
AddCharWidthNoKerning(f2, prevglyph, c, width) ==
    [f |-> f2, width |-> width + f2.glyphs[c].spacing]

\* Lines 774-777: width += g.spacing + getKerning(prevglyph, c).
AddCharWidth(f2, prevglyph, c, width) ==
    LET kr == GetKerningIn(f2, prevglyph, c)
    IN  [f |-> kr.f, width |-> width + f2.glyphs[c].spacing + kr.k]

\* Lines 759-778: the width of one line.
RECURSIVE LineWidthFrom(_, _, _, _, _)
LineWidthFrom(f, line, i, width, prevglyph) ==
    IF i > Len(line) THEN {[f |-> f, width |-> width]}
    ELSE IF line[i] = CR THEN LineWidthFrom(f, line, i + 1, width, prevglyph)
    ELSE UNION {LineWidthFrom(x.f, line, i + 1, x.width, line[i]) : x \in
            {AddCharWidth(f2, prevglyph, line[i], width) :
                f2 \in FindGlyphIn(f, line[i])}}

\* Lines 757-786: the loop over the lines.
RECURSIVE MaxLineWidth(_, _, _, _)
MaxLineWidth(f, lines, n, max_width) ==
    IF n > Len(lines) THEN {[f |-> f, width |-> max_width]}
    ELSE UNION {MaxLineWidth(x.f, lines, n + 1, Max(max_width, x.width)) : x \in
            LineWidthFrom(f, lines[n], 1, 0, 0)}

GetWidthIn(f, str) ==
    IF Len(str) = 0 THEN {[f |-> f, width |-> 0]}
    ELSE MaxLineWidth(f, GetLines(str), 1, 0)

-----------------------------------------------------------------------------
(* Font::getWrap.  A colored text is [cps, colors]; a color span is        *)
(* [color, index], the index counted from 0 as in the code.  events is the *)
(* history of the lines closed at the wrap limit; wsrc holds, for every    *)
(* codepoint of wline, its index in the input, and srcs those of lines;    *)
(* linestart is the index at which wline was begun, starts those of lines. *)

IndexedColor(color, index) == [color |-> color, index |-> index]

ColoredCodepoints(cps, colors) == [cps |-> cps, colors |-> colors]

\* Lines 799-818: the locals before the loop.
WrapStart(f) ==
    [f |-> f, i |-> 0, width |-> 0, widthbeforelastspace |-> 0,
     widthoftrailingspace |-> 0, prevglyph |-> 0, lastspaceindex |-> 0 - 1,
     curcolor |-> White, addcurcolor |-> FALSE, curcolori |-> 0 - 1,
     wline |-> ColoredCodepoints(<<>>, <<>>), lines |-> <<>>,
     linewidths |-> <<>>, events |-> <<>>, wsrc |-> <<>>, srcs |-> <<>>,
     linestart |-> 0, starts |-> <<>>]

\* Lines 825-830.
WrapColor(s, codepoints) ==
    IF /\ s.curcolori < Len(codepoints.colors) - 1
       /\ codepoints.colors[s.curcolori + 2].index = s.i
    THEN [s EXCEPT !.curcolor = codepoints.colors[s.curcolori + 2].color,
                   !.curcolori = @ + 1, !.addcurcolor = TRUE]
    ELSE s

\* lines.push_back(wline), linewidths->push_back(w) and the reset of the
\* per-line info (lines 835-848 and 901-912).
WrapPushLine(s, w, haswidths) ==
    [s EXCEPT !.lines = Append(@, s.wline),
              !.linewidths = IF haswidths THEN Append(@, w) ELSE @,
              !.addcurcolor = TRUE, !.width = 0, !.widthbeforelastspace = 0,
              !.widthoftrailingspace = 0, !.prevglyph = 0,
              !.lastspaceindex = 0 - 1,
              !.wline = ColoredCodepoints(<<>>, <<>>),
              !.srcs = Append(@, s.wsrc), !.wsrc = <<>>,
              !.starts = Append(@, s.linestart), !.linestart = s.i]

\* Lines 877-878.
RECURSIVE PopToSpace(_)
PopToSpace(cps) ==
    IF cps # <<>> /\ cps[Len(cps)] # SPACE
    THEN PopToSpace(SubSeq(cps, 1, Len(cps) - 1))
    ELSE cps

\* Lines 880-881.
RECURSIVE PopColors(_, _)
PopColors(colors, size) ==
    IF colors # <<>> /\ colors[Len(colors)].index >= size
    THEN PopColors(SubSeq(colors, 1, Len(colors) - 1), size)
    ELSE colors

\* Faulty variant: the color is not rewound.
RewindColorKept(s, codepoints, colori) == s

\* Lines 884-892.
RECURSIVE RewindColor(_, _, _)
RewindColor(s, codepoints, colori) ==
    IF colori < 0 THEN s
    ELSE IF codepoints.colors[colori + 1].index <= s.lastspaceindex
    THEN [s EXCEPT !.curcolor = codepoints.colors[colori + 1].color,
                   !.curcolori = colori]
    ELSE RewindColor(s, codepoints, colori - 1)

\* Faulty variant: the line is closed with the width it had at the overflow.
WrapRewindFullWidth(s, codepoints) ==
    LET cps == PopToSpace(s.wline.cps)
        colors == PopColors(s.wline.colors, Len(cps))
        s1 == RewindColor(s, codepoints, s.curcolori)
    IN  [s1 EXCEPT !.wline = ColoredCodepoints(cps, colors),
                   !.wsrc = SubSeq(@, 1, Len(cps)),
                   !.i = s.lastspaceindex + 1]

\* Lines 875-898: rewind to the last seen space.
WrapRewind(s, codepoints) ==
    LET cps == PopToSpace(s.wline.cps)
        colors == PopColors(s.wline.colors, Len(cps))
        s1 == RewindColor(s, codepoints, s.curcolori)
    IN  [s1 EXCEPT !.wline = ColoredCodepoints(cps, colors),
                   !.wsrc = SubSeq(@, 1, Len(cps)),
                   !.width = s.widthbeforelastspace,
                   !.i = s.lastspaceindex + 1]

\* Faulty variant: on the first line the codepoint is not passed over.
WrapFirstTooWideOnce(s, c) ==
    IF s.lines = <<>> THEN s ELSE [s EXCEPT !.i = @ + 1]

\* Lines 871-872: the first codepoint of a line is too wide.
WrapFirstTooWide(s, c) == [s EXCEPT !.i = @ + 1]

\* Lines 869-914: the codepoint c does not fit.
WrapOverflow(s, codepoints, c, haswidths) ==
    LET kind == IF s.wline.cps = <<>> THEN "first"
                ELSE IF s.lastspaceindex # 0 - 1 THEN "rewind"
                ELSE "break"
        s1 == CASE kind = "first" -> WrapFirstTooWide(s, c)
                [] kind = "rewind" -> WrapRewind(s, codepoints)
                [] OTHER -> s
        event == [kind |-> kind, i |-> s.i, c |-> c, before |-> s.wline.cps,
                  lastspaceindex |-> s.lastspaceindex, line |-> s1.wline.cps,
                  width |-> s1.width, next |-> s1.i, nline |-> Len(s.lines) + 1]
    IN  WrapPushLine([s1 EXCEPT !.events = Append(@, event)], s1.width, haswidths)

\* Lines 917-941: the codepoint c joins the line.
WrapInclude(s, c, charwidth) ==
    [s EXCEPT !.widthbeforelastspace =
                  IF s.prevglyph # SPACE /\ c = SPACE THEN s.width ELSE @,
              !.width = @ + charwidth,
              !.prevglyph = c,
              !.addcurcolor = FALSE,
              !.wline = ColoredCodepoints(
                  Append(s.wline.cps, c),
                  IF s.addcurcolor
                  THEN Append(s.wline.colors,
                              IndexedColor(s.curcolor, Len(s.wline.cps)))
                  ELSE s.wline.colors),
              !.wsrc = Append(@, s.i),
              !.lastspaceindex = IF c = SPACE THEN s.i ELSE @,
              !.widthoftrailingspace = IF c = SPACE THEN @ + charwidth ELSE 0,
              !.i = @ + 1]

\* Lines 861-941: after findGlyph(c).
WrapAfterFind(s, f2, codepoints, wraplimit, haswidths, c) ==
    LET kr == GetKerningIn(f2, s.prevglyph, c)
        charwidth == f2.glyphs[c].spacing + kr.k
        s1 == [s EXCEPT !.f = kr.f]
    IN  IF c # SPACE /\ s.width + charwidth > wraplimit
        THEN WrapOverflow(s1, codepoints, c, haswidths)
        ELSE WrapInclude(s1, c, charwidth)

\* Faulty variant: the width of the trailing spaces is kept.
WrapFinishFullWidth(s, haswidths) == WrapPushLine(s, s.width, haswidths)

\* Faulty variant: no line is pushed after the loop when it is empty.
WrapFinishNonEmpty(s, haswidths) ==
    IF s.wline.cps = <<>> THEN s
    ELSE WrapPushLine(s, s.width - s.widthoftrailingspace, haswidths)

\* Lines 944-949: push the last line.
WrapFinish(s, haswidths) ==
    WrapPushLine(s, s.width - s.widthoftrailingspace, haswidths)

\* Lines 819-942: the loop.
RECURSIVE WrapLoop(_, _, _, _)
WrapLoop(s0, codepoints, wraplimit, haswidths) ==
    IF s0.i >= Len(codepoints.cps) THEN {s0}
    ELSE LET s == WrapColor(s0, codepoints)
             c == codepoints.cps[s.i + 1]
         IN  UNION {WrapLoop(x, codepoints, wraplimit, haswidths) : x \in
                 IF c = NEWLINE
                 THEN {[WrapPushLine(s, s.width - s.widthoftrailingspace,
                                     haswidths) EXCEPT !.i = s.i + 1,
                                                       !.linestart = s.i + 1]}
                 ELSE IF c = CR THEN {[s EXCEPT !.i = @ + 1]}
                 ELSE {WrapAfterFind(s, f2, codepoints, wraplimit, haswidths, c) :
                          f2 \in FindGlyphIn(s.f, c)}}

\* haswidths: the caller gave a list for the widths (linewidths != nullptr).
GetWrapIn(f, codepoints, wraplimit, haswidths) ==
    {[f |-> x.f, lines |-> x.lines, linewidths |-> x.linewidths,
      events |-> x.events, srcs |-> x.srcs, starts |-> x.starts] : x \in
        {WrapFinish(s, haswidths) :
            s \in WrapLoop(WrapStart(f), codepoints, wraplimit, haswidths)}}

-----------------------------------------------------------------------------
(* Font::generateVerticesFormatted.  The argument is [text, constantcolor, *)
(* wrap, align]; passes is the history of the passes made so far: for each *)
(* one the lines it wrapped, their widths and x offsets, and whether       *)
(* textureCacheID changed during it.                                       *)

AlignModes == {"left", "right", "center", "justify"}

IsSpace(c) == c = SPACE

\* Faulty variant: the offset is measured from the end of the line.
AlignOffsetFromWidth(align, wrap, width) ==
    CASE align = "right" -> width - wrap
      [] align = "center" -> (width - wrap) \div 2
      [] OTHER -> 0

\* Lines 641-661: the x offset of a line.
AlignOffset(align, wrap, width) ==
    CASE align = "right" -> wrap - width
      [] align = "center" -> (wrap - width) \div 2
      [] OTHER -> 0

\* Lines 649-656.  generateVertices uses the extra spacing only in
\* floorf(dx + extra_spacing) with a whole dx, so its floor is kept.
ExtraSpacing(align, wrap, width, cps) ==
    LET numspaces == Len(SelectSeq(cps, IsSpace))
    IN  IF align = "justify" /\ width < wrap /\ numspaces >= 1
        THEN (wrap - width) \div numspaces
        ELSE 0

\* Lines 665-684: the commands of a line join those of the lines before.
MergeCommands(drawcommands, newcommands) ==
    IF newcommands = <<>> THEN drawcommands
    ELSE IF /\ drawcommands # <<>>
            /\ drawcommands[Len(drawcommands)].texture = newcommands[1].texture
            /\ drawcommands[Len(drawcommands)].startvertex
                  + drawcommands[Len(drawcommands)].vertexcount
                  = newcommands[1].startvertex
    THEN [drawcommands EXCEPT ![Len(drawcommands)].vertexcount =
              @ + newcommands[1].vertexcount] \o Tail(newcommands)
    ELSE drawcommands \o newcommands

\* Lines 631-687: the lines from the i-th on.
RECURSIVE FormatLines(_, _, _, _)
FormatLines(s, in, wr, i) ==
    IF i > Len(wr.lines) THEN {s}
    ELSE LET line == wr.lines[i]
             width == wr.linewidths[i]
             offset == <<AlignOffset(in.align, in.wrap, width), s.y>>
             extraspacing == ExtraSpacing(in.align, in.wrap, width, line.cps)
         IN  UNION {FormatLines(x, in, wr, i + 1) : x \in
                 {[f |-> r.f, y |-> s.y + GetHeight * LineHeight,
                   maxwidth |-> Max(width, s.maxwidth),
                   drawcommands |-> MergeCommands(s.drawcommands, r.commands),
                   vertices |-> r.vertices,
                   offsets |-> Append(s.offsets, offset[1])] :
                     r \in GenerateVerticesIn(s.f,
                              GenInput(line.cps, line.colors, in.constantcolor,
                                       extraspacing, offset, s.vertices))}}

\* Lines 618-693: one pass over the text.
FormatPass(f, in, vertices) ==
    UNION {{[f |-> s.f, commands |-> s.drawcommands, vertices |-> s.vertices,
             info |-> [width |-> s.maxwidth, height |-> s.y],
             lines |-> wr.lines, widths |-> wr.linewidths,
             offsets |-> s.offsets] :
              s \in FormatLines([f |-> wr.f, y |-> 0, maxwidth |-> 0,
                                 drawcommands |-> <<>>, vertices |-> vertices,
                                 offsets |-> <<>>],
                                in, wr, 1)} :
           wr \in GetWrapIn(f, in.text, in.wrap, TRUE)}

\* Faulty variant: the pass is kept although textureCacheID changed.
FormatAfterPassKept(p, cacheid, in, passes) ==
    {[f |-> p.f, commands |-> p.commands, vertices |-> p.vertices,
      info |-> p.info,
      passes |-> Append(passes, [changed |-> cacheid # p.f.textureCacheID,
                                 lines |-> p.lines, widths |-> p.widths,
                                 offsets |-> p.offsets])]}

RECURSIVE FormatAfterPass(_, _, _, _)
RECURSIVE GenerateVerticesFormattedFrom(_, _, _, _)

\* Lines 695-701: the pass is made again when textureCacheID changed; the
\* inner call is given no info, so the info of this pass stays.
FormatAfterPass(p, cacheid, in, passes) ==
    LET log == Append(passes, [changed |-> cacheid # p.f.textureCacheID,
                               lines |-> p.lines, widths |-> p.widths,
                               offsets |-> p.offsets])
    IN  IF cacheid # p.f.textureCacheID
        THEN {[r EXCEPT !.info = p.info] :
                 r \in GenerateVerticesFormattedFrom(p.f, in, <<>>, log)}
        ELSE {[f |-> p.f, commands |-> p.commands, vertices |-> p.vertices,
               info |-> p.info, passes |-> log]}

GenerateVerticesFormattedFrom(f, in, vertices, passes) ==
    UNION {FormatAfterPass(p, f.textureCacheID, in, passes) :
              p \in FormatPass(f, in, vertices)}

\* Line 616: wrap = std::max(wrap, 0.0f).
GenerateVerticesFormattedIn(f, in, vertices) ==
    GenerateVerticesFormattedFrom(f, [in EXCEPT !.wrap = Max(@, 0)],
                                  vertices, <<>>)

-----------------------------------------------------------------------------
(* Font::Font                                                              *)

\* The loop of lines 67-79.  (height * 0.8) * height * 30 is 24 * height^2.
RECURSIVE ConstructorSize(_)
ConstructorSize(f) ==
    IF 24 * height * height <= f.textureWidth * f.textureHeight THEN f
    ELSE LET nextsize == GetNextTextureSize(f)
         IN  IF nextsize.width <= f.textureWidth /\ nextsize.height <= f.textureHeight
             THEN f
             ELSE CHOOSE r \in {ConstructorSize(g) :
                                g \in {[f EXCEPT !.textureWidth = nextsize.width,
                                                 !.textureHeight = nextsize.height]}} : TRUE

Constructed ==
    LoadVolatileIn(ConstructorSize(
        [rasterizers |-> <<PrimaryRasterizer>>,
         textureWidth |-> InitialTextureSize, textureHeight |-> InitialTextureSize,
         textures |-> <<>>, textureX |-> 0, textureY |-> 0, rowHeight |-> 0,
         glyphs |-> EmptyMap, kerning |-> EmptyMap, textureCacheID |-> 0,
         nextTexture |-> 1, log |-> EmptyLog]))

Call(op, arg, ret, f) == [op |-> op, arg |-> arg, ret |-> ret, log |-> f.log]

-----------------------------------------------------------------------------
(* The environments the model is run in and the inputs of the methods.     *)

MaxSizes == {64, 128, 256, 300, 16384}
Heights == {12, 40, 2000}
Profiles == {1, 2}

\* <<maxsize, height, profile>>
AtlasEnvs == MaxSizes \X Heights \X Profiles
Envs == {<<128, 12, 1>>, <<256, 12, 1>>}
ChainEnvs == {<<256, 12, 1>>}

GlyphCodes == {TAB, SPACE, CpA, CpB, CpC}
ChainCodes == {TAB, CpA, CpC}
KerningPairs == {<<CpA, CpB>>, <<CpA, CpC>>, <<CpB, CpC>>}

\* The texts are the pieces of MasterText of at most MaxLen codepoints.
MasterText == <<CpA, CpB, CpC, NEWLINE, CpC, CpA>>
Texts ==
    {SubSeq(MasterText, p[1], p[1] + p[2] - 1) :
        p \in {q \in (1..Len(MasterText)) \X (0..MaxLen) :
                   q[1] + q[2] - 1 <= Len(MasterText)}}

\* The contiguous pieces of a text.
Pieces(text) ==
    {SubSeq(text, p[1], p[2]) : p \in (1..(Len(text) + 1)) \X (0..Len(text))}

\* The inputs of getWidth and getWrap.
WrapEnvs == {<<256, 12, 1>>, <<256, 12, 2>>}
WordsText == <<CpA, CpB, SPACE, CpC, CpD>>
BreaksText == <<CpA, NEWLINE, CR, CpA>>
WrapTexts == Pieces(WordsText) \cup Pieces(BreaksText)
WrapLimits == {0 - 5, 0, 9, 15, 25, 100}
ColorLimits == {25, 45}
Colorings ==
    {<<IndexedColor("red", 0)>>,
     <<IndexedColor("red", 0), IndexedColor("blue", 2)>>,
     <<IndexedColor("red", 0), IndexedColor("blue", 3)>>,
     <<IndexedColor("red", 0), IndexedColor("blue", 4)>>,
     <<IndexedColor("blue", 1)>>}
WrapInputs ==
    {[text |-> ColoredCodepoints(cps, <<>>), wraplimit |-> l] :
        cps \in WrapTexts, l \in WrapLimits}
    \cup {[text |-> ColoredCodepoints(cps, colors), wraplimit |-> l] :
            cps \in {WordsText, BreaksText}, colors \in Colorings,
            l \in ColorLimits}

\* Environments in which the atlas is replaced, and in which a second and
\* a third texture are appended.
GrowEnvs == {<<128, 12, 3>>, <<256, 12, 3>>, <<128, 12, 2>>}
GrowCodes == {SPACE, CpA, CpB, CpC, CpD}

\* Arguments of generateVertices with color spans, extra spacing and an
\* offset.
RestartTexts ==
    {<<CpA, CpB, CpC>>, <<CpA, SPACE, CpC>>, <<CpA, NEWLINE, CpC>>, <<CpC, CpA>>}
RestartInputs ==
    {GenInput(cps, colors, White, extra_spacing, offset, <<>>) :
        cps \in RestartTexts,
        colors \in {<<>>, <<IndexedColor("red", 0), IndexedColor("blue", 1)>>},
        extra_spacing \in {0, 3},
        offset \in {<<0, 0>>, <<5, 7>>}}

\* The inputs of generateVerticesFormatted.
FormatEnvs == Envs \cup WrapEnvs
FormatCodes == {CpB, CpC}
FormatWraps == {0 - 1, 15, 25, 45}
FormatInputs ==
    {[text |-> ColoredCodepoints(cps, <<>>), constantcolor |-> White,
      wrap |-> l, align |-> a] :
        cps \in Pieces(WordsText), l \in FormatWraps, a \in AlignModes}
    \cup {[text |-> ColoredCodepoints(WordsText, colors), constantcolor |-> White,
           wrap |-> 25, align |-> "left"] : colors \in Colorings}

\* The sequences of at most n different elements of S.
RECURSIVE SeqsUpTo(_, _)
SeqsUpTo(S, n) ==
    IF n = 0 THEN {<<>>}
    ELSE LET shorter == SeqsUpTo(S, n - 1)
         IN  shorter \cup
             {Append(s, x) : <<s, x>> \in
                 {p \in shorter \X S : \A i \in 1..Len(p[1]) : p[1][i] # p[2]}}

InitIn(envs) ==
    /\ \E e \in envs : maxsize = e[1] /\ height = e[2] /\ profile = e[3]
    /\ loads = 0
    /\ \E f \in Constructed :
          /\ rasterizers = f.rasterizers
          /\ textureWidth = f.textureWidth
          /\ textureHeight = f.textureHeight
          /\ textures = f.textures
          /\ textureX = f.textureX
          /\ textureY = f.textureY
          /\ rowHeight = f.rowHeight
          /\ glyphs = f.glyphs
          /\ kerning = f.kerning
          /\ textureCacheID = f.textureCacheID
          /\ nextTexture = f.nextTexture
          /\ call = Call("Font", 0, 0, f)

Init == InitIn(Envs)

InitChain == InitIn(ChainEnvs)

InitAtlas == InitIn(AtlasEnvs)

InitWrap == InitIn(WrapEnvs)

InitFormat == InitIn(FormatEnvs)

InitGrow == InitIn(GrowEnvs)

-----------------------------------------------------------------------------
(* The methods as actions.  A font whose textures were unloaded is not     *)
(* used before loadVolatile has run again.                                 *)

Loaded == textures # <<>>

FindGlyph(glyph) ==
    /\ Loaded
    /\ \E f \in FindGlyphIn(Self, glyph) :
          /\ Install(f)
          /\ call' = Call("findGlyph", glyph, f.glyphs[glyph], f)
    /\ UNCHANGED <<Env, loads>>

LoadVolatile ==
    /\ loads < MaxLoads
    /\ loads' = loads + 1
    /\ \E f \in LoadVolatileIn(Self) :
          /\ Install(f)
          /\ call' = Call("loadVolatile", 0, TRUE, f)
    /\ UNCHANGED Env

UnloadVolatile ==
    /\ Loaded
    /\ LET f == UnloadVolatileIn(Self)
       IN  /\ Install(f)
           /\ call' = Call("unloadVolatile", 0, 0, f)
    /\ UNCHANGED <<Env, loads>>

GetKerning(leftglyph, rightglyph) ==
    /\ \/ <<leftglyph, rightglyph>> \in DOMAIN kerning
       \/ Cardinality(DOMAIN kerning) < MaxKerning
    /\ LET r == GetKerningIn(Self, leftglyph, rightglyph)
       IN  /\ Install(r.f)
           /\ call' = Call("getKerning", <<leftglyph, rightglyph>>, r.k, r.f)
    /\ UNCHANGED <<Env, loads>>

SetFallbacks(fallbacks) ==
    /\ LET r == SetFallbacksIn(Self, fallbacks)
       IN  /\ Install(r.f)
           /\ call' = Call("setFallbacks", fallbacks,
                           IF r.ok THEN "ok" ELSE "error", r.f)
    /\ UNCHANGED <<Env, loads>>

GenerateVertices(cps) ==
    /\ Loaded
    /\ \E r \in GenerateVerticesIn(Self,
                    GenInput(cps, <<>>, White, 0, <<0, 0>>, <<>>)) :
          /\ Install(r.f)
          /\ call' = Call("generateVertices", cps,
                          [commands |-> r.commands, vertices |-> r.vertices,
                           info |-> r.info, restarts |-> r.restarts], r.f)
    /\ UNCHANGED <<Env, loads>>

\* Texts are measured and wrapped by a font that has met no glyph pair
\* yet: this bounds the number of calls of a behaviour.
NoKerningYet == kerning = EmptyMap

GetWidth(str) ==
    /\ Loaded
    /\ NoKerningYet
    /\ \E r \in GetWidthIn(Self, str) :
          /\ Install(r.f)
          /\ call' = Call("getWidth", str, r.width, r.f)
    /\ UNCHANGED <<Env, loads>>

GetWrap(in) ==
    /\ Loaded
    /\ NoKerningYet
    /\ \E r \in GetWrapIn(Self, in.text, in.wraplimit, TRUE) :
          /\ Install(r.f)
          /\ call' = Call("getWrap", in,
                          [lines |-> r.lines, linewidths |-> r.linewidths,
                           events |-> r.events, srcs |-> r.srcs,
                           starts |-> r.starts], r.f)
    /\ UNCHANGED <<Env, loads>>

GenerateVerticesFormatted(in) ==
    /\ Loaded
    /\ NoKerningYet
    /\ \E r \in GenerateVerticesFormattedIn(Self, in, <<>>) :
          /\ Install(r.f)
          /\ call' = Call("generateVerticesFormatted", in,
                          [commands |-> r.commands, vertices |-> r.vertices,
                           info |-> r.info, passes |-> r.passes], r.f)
    /\ UNCHANGED <<Env, loads>>

NextAtlas ==
    \/ \E glyph \in GlyphCodes : FindGlyph(glyph)
    \/ LoadVolatile
    \/ UnloadVolatile

NextChain ==
    \/ \E glyph \in ChainCodes : FindGlyph(glyph)
    \/ LoadVolatile
    \/ UnloadVolatile
    \/ \E p \in KerningPairs : GetKerning(p[1], p[2])
    \/ \E fallbacks \in SeqsUpTo(FallbackFonts, MaxFallbacks) : SetFallbacks(fallbacks)

NextGen ==
    \/ LoadVolatile
    \/ \E cps \in Texts : GenerateVertices(cps)

NextWrap ==
    \/ \E str \in WrapTexts : GetWidth(str)
    \/ \E in \in WrapInputs : GetWrap(in)

\* generateVertices with all its arguments.
GenerateVerticesColored(in) ==
    /\ Loaded
    /\ \E r \in GenerateVerticesIn(Self, in) :
          /\ Install(r.f)
          /\ call' = Call("generateVerticesColored", in,
                          [commands |-> r.commands, vertices |-> r.vertices,
                           info |-> r.info, restarts |-> r.restarts], r.f)
    /\ UNCHANGED <<Env, loads>>

NextRestart ==
    \/ LoadVolatile
    \/ \E in \in RestartInputs : GenerateVerticesColored(in)

NextGrow ==
    \/ \E glyph \in GrowCodes : FindGlyph(glyph)
    \/ LoadVolatile
    \/ UnloadVolatile

NextFormat ==
    \/ \E glyph \in FormatCodes : FindGlyph(glyph)
    \/ \E in \in FormatInputs : GenerateVerticesFormatted(in)

Next ==
    NextAtlas \/ NextChain \/ NextGen \/ NextWrap \/ NextGrow \/ NextRestart
        \/ NextFormat

\* The whole font.
Spec == Init /\ [][Next]_vars

\* The atlas alone, in every environment.
SpecAtlas == InitAtlas /\ [][NextAtlas]_vars

\* The fallback chain and the two caches.
SpecChain == InitChain /\ [][NextChain]_vars

\* The vertex generator.
SpecGen == Init /\ [][NextGen]_vars

\* The line wrapper and the width of a string.
SpecWrap == InitWrap /\ [][NextWrap]_vars

\* The vertex generator with all its arguments.
SpecRestart == Init /\ [][NextRestart]_vars

\* The growth of the atlas.
SpecGrow == InitGrow /\ [][NextGrow]_vars

\* The formatted vertex generator.
SpecFormat == InitFormat /\ [][NextFormat]_vars

-----------------------------------------------------------------------------
(* The claims.                                                             *)

TextureIds == {textures[i].id : i \in 1..Len(textures)}

Creates == call.log.creates

Recreates == {i \in 1..Len(Creates) : Creates[i].recreate}

\* createTexture calls made by addGlyph that did not replace the texture
AppendGrowths ==
    {i \in 1..Len(Creates) : ~Creates[i].recreate /\ Creates[i].caller.glyph # 0}

IsVisible(c) == c \in DOMAIN glyphs /\ glyphs[c].texture # NoTexture

VisibleGlyphs == {c \in DOMAIN glyphs : IsVisible(c)}

\* C1: when generateVertices returns, every draw command's texture is one
\* of the font's current textures, every quad is the cached glyph record of
\* its codepoint and was emitted under the current textureCacheID, and the
\* quads are exactly the visible codepoints of the text, in order.
C1_GeneratedVerticesAreCurrent ==
    call.op = "generateVertices" =>
        LET cmds == call.ret.commands
            quads == call.ret.vertices
            drawn == SelectSeq(call.arg, IsVisible)
        IN  /\ \A i \in 1..Len(cmds) : cmds[i].texture \in TextureIds
            /\ \A i \in 1..Len(quads) :
                  /\ quads[i].g \in DOMAIN glyphs
                  /\ quads[i].glyph = glyphs[quads[i].g]
                  /\ quads[i].glyph.texture \in TextureIds
                  /\ quads[i].cacheid = textureCacheID
            /\ Len(quads) = Len(drawn)
            /\ \A i \in 1..Len(quads) : quads[i].g = drawn[i]

\* A call that restarted after having emitted a quad, and returned two.
C1_Witness ==
    /\ call.op = "generateVertices"
    /\ call.ret.restarts >= 1
    /\ Len(call.ret.vertices) >= 2
    /\ call.arg[Len(call.arg)] \notin {call.arg[1], NEWLINE}

RECURSIVE StepsLeft(_, _)
StepsLeft(w, h) ==
    IF w = h /\ 2 * w <= Min(HardMaxWidth, maxsize) THEN 1 + StepsLeft(2 * w, h)
    ELSE IF w # h /\ 2 * h <= Min(HardMaxHeight, maxsize) THEN 1 + StepsLeft(w, 2 * h)
    ELSE 0

\* C3 as stated: the retry always succeeds, so a glyph resolution retries
\* (and calls createTexture itself) at most once.
C3_RetryAtMostOnce ==
    call.op = "findGlyph" => call.log.retry <= 1

\* C3 amended: addGlyph retries only after createTexture; the retry
\* succeeds at once after a texture was appended, but after a replacement
\* it can find the atlas exhausted again, so the depth of the retries is at
\* most the number of growth steps left when the call began, plus one.
\* The glyph is cached when the call returns.
C3_RetryBoundedByGrowth ==
    call.op = "findGlyph" =>
        /\ call.arg \in DOMAIN glyphs
        /\ call.log.retry <= Len(Creates)
        /\ call.log.retry <= StepsLeft(call.log.width0, call.log.height0) + 1
        /\ call.log.retry <= Cardinality(Recreates) + 1
        /\ \A i \in AppendGrowths :
              i < Len(Creates) =>
                  ~ /\ Creates[i + 1].caller.glyph = Creates[i].caller.glyph
                    /\ Creates[i + 1].caller.retry = Creates[i].caller.retry + 1

\* A glyph resolution whose first retry found the atlas exhausted again.
C3_Witness ==
    /\ call.op = "findGlyph"
    /\ call.log.retry = 2
    /\ Cardinality(Recreates) = 2

InGrowthSequence(w, h) ==
    /\ w = h \/ w = 2 * h
    /\ \E k \in 0..6 : h = InitialTextureSize * 2 ^ k

\* C4: the atlas size is always in the sequence 128x128, 256x128, 256x256,
\* 512x256, ...; every replacement doubles exactly one side (the width when
\* the sides are equal, else the height), and createTexture appends instead
\* of growing only when the side to double would pass its maximum.
C4_GrowthSequence ==
    /\ InGrowthSequence(textureWidth, textureHeight)
    /\ \A i \in 1..Len(textures) :
          InGrowthSequence(textures[i].width, textures[i].height)
    /\ \A i \in Recreates :
          IF Creates[i].oldwidth = Creates[i].oldheight
          THEN /\ Creates[i].width = 2 * Creates[i].oldwidth
               /\ Creates[i].height = Creates[i].oldheight
          ELSE /\ Creates[i].width = Creates[i].oldwidth
               /\ Creates[i].height = 2 * Creates[i].oldheight
    /\ \A i \in AppendGrowths :
          /\ Creates[i].width = Creates[i].oldwidth
          /\ Creates[i].height = Creates[i].oldheight
          /\ IF Creates[i].oldwidth = Creates[i].oldheight
             THEN 2 * Creates[i].oldwidth > Min(HardMaxWidth, maxsize)
             ELSE 2 * Creates[i].oldheight > Min(HardMaxHeight, maxsize)

\* A 128x128 atlas that was replaced by a 256x128 one.
C4_Witness ==
    /\ Recreates # {}
    /\ textureWidth = 2 * InitialTextureSize
    /\ textureHeight = InitialTextureSize

\* C5 as stated: for every platform maximum, no atlas texture is larger
\* than min(8192, maxsize) by min(4096, maxsize).
C5_WithinPlatformMaximum ==
    /\ textureWidth <= Min(HardMaxWidth, maxsize)
    /\ textureHeight <= Min(HardMaxHeight, maxsize)
    /\ \A i \in 1..Len(textures) :
          /\ textures[i].width <= Min(HardMaxWidth, maxsize)
          /\ textures[i].height <= Min(HardMaxHeight, maxsize)

\* The rectangle of a glyph lies in its texture, a pixel from each edge.
InsideTexture(g) ==
    /\ g.x >= 1
    /\ g.y >= 1
    /\ g.x + g.w <= g.tw - 1
    /\ g.y + g.h <= g.th - 1

\* Two rectangles are at least a pixel apart.
Apart(a, b) ==
    \/ a.x + a.w + 1 <= b.x
    \/ b.x + b.w + 1 <= a.x
    \/ a.y + a.h + 1 <= b.y
    \/ b.y + b.h + 1 <= a.y

\* C6 as stated: every uploaded glyph rectangle lies inside its texture, a
\* pixel from each edge and from every other rectangle of that texture.
C6_GlyphsPackedApart ==
    /\ \A c \in VisibleGlyphs : InsideTexture(glyphs[c])
    /\ \A c, d \in VisibleGlyphs :
          c # d /\ glyphs[c].texture = glyphs[d].texture
              => Apart(glyphs[c], glyphs[d])

\* C7: findGlyph for a cached codepoint returns the stored record, asks no
\* rasterizer and changes neither the cursor, the textures, the glyph cache
\* nor textureCacheID.
C7_FindGlyphMemoized ==
    [][(call'.op = "findGlyph" /\ call'.arg \in DOMAIN glyphs) =>
          /\ call'.ret = glyphs[call'.arg]
          /\ call'.log.rq = <<>>
          /\ call'.log.creates = <<>>
          /\ UNCHANGED <<textureX, textureY, rowHeight, textureWidth,
                         textureHeight, textures, glyphs, textureCacheID>>]_vars

\* A cache hit on a glyph that has a place in the atlas.
C7_Witness ==
    /\ call.op = "findGlyph"
    /\ call.log.rq = <<>>
    /\ call.ret.texture # NoTexture
    /\ Cardinality(VisibleGlyphs) >= 2

\* C8: no step removes or changes a kerning entry, and getKerning for a
\* cached pair returns the cached value without asking a rasterizer.
C8_KerningCacheKept ==
    [][/\ \A p \in DOMAIN kerning :
              p \in DOMAIN kerning' /\ kerning'[p] = kerning[p]
       /\ (call'.op = "getKerning" /\ call'.arg \in DOMAIN kerning) =>
              /\ call'.ret = kerning[call'.arg]
              /\ call'.log.rq = <<>>
              /\ kerning' = kerning]_vars

\* The textures were unloaded while kerning entries were cached.
C8_Witness ==
    /\ call.op = "unloadVolatile"
    /\ Cardinality(DOMAIN kerning) >= 2
    /\ rasterizers # <<PrimaryRasterizer>>

\* The first rasterizer of the chain that has the glyph, else the primary.
ChosenRasterizer(rs, glyph) ==
    IF \E i \in 1..Len(rs) : RasHasGlyph(rs[i], glyph)
    THEN rs[CHOOSE i \in 1..Len(rs) :
                /\ RasHasGlyph(rs[i], glyph)
                /\ \A j \in 1..(i - 1) : ~RasHasGlyph(rs[j], glyph)]
    ELSE rs[1]

\* C9: on a cache miss for a codepoint other than a synthesized tab, the
\* glyph data and the DPI scale both come from the first rasterizer of the
\* chain that has the codepoint, or from the primary when none has it.
C9_GlyphFromFirstRasterizer ==
    (/\ call.op = "findGlyph"
     /\ call.log.rq # <<>>
     /\ ~(call.arg = TAB /\ useSpacesAsTab)) =>
        LET r == ChosenRasterizer(rasterizers, call.arg)
            gd == RasGlyphData(r, call.arg)
        IN  /\ call.ret.spacing = RoundDiv(gd.advance, RasDPIScale(r))
            /\ (gd.width > 0 /\ gd.height > 0) =>
                  /\ call.ret.w = gd.width
                  /\ call.ret.h = gd.height
                  /\ call.ret.dpiscale = RasDPIScale(r)
            /\ \A i \in 1..Len(call.log.rq) :
                  (call.log.rq[i].fn = "getGlyphData" /\ call.log.rq[i].c = call.arg)
                      => call.log.rq[i].r = r

\* The primary lacks the codepoint and the glyph came from fallback 2, by
\* the DPI scale of fallback 2.
C9_Witness ==
    /\ call.op = "findGlyph"
    /\ call.log.rq # <<>>
    /\ call.arg = CpC
    /\ Len(rasterizers) = 3
    /\ rasterizers[2] = 3
    /\ rasterizers[3] = 2
    /\ call.ret.dpiscale = RasDPIScale(3)
    /\ RasDPIScale(3) # dpiScale

\* C10: setFallbacks with a fallback of another data type fails and leaves
\* the chain as it was; otherwise the chain becomes the primary rasterizer
\* followed by the primary rasterizer of each fallback, in order.
C10_SetFallbacksAllOrNothing ==
    [][call'.op = "setFallbacks" =>
          IF \E i \in 1..Len(call'.arg) :
                RasDataType(FallbackRasterizer(call'.arg[i]))
                    # RasDataType(rasterizers[1])
          THEN call'.ret = "error" /\ rasterizers' = rasterizers
          ELSE /\ call'.ret = "ok"
               /\ Len(rasterizers') = 1 + Len(call'.arg)
               /\ rasterizers'[1] = rasterizers[1]
               /\ \A i \in 1..Len(call'.arg) :
                     rasterizers'[i + 1] = FallbackRasterizer(call'.arg[i])]_vars

\* A call that failed on its second font and left two fallbacks in place.
C10_Witness ==
    /\ call.op = "setFallbacks"
    /\ call.ret = "error"
    /\ Len(call.arg) = 2
    /\ RasDataType(FallbackRasterizer(call.arg[1])) = RasDataType(PrimaryRasterizer)
    /\ Len(rasterizers) = 3

\* The codepoints of a text that are not carriage returns.
NotCR(c) == c # CR

WithoutCR(cps) == SelectSeq(cps, NotCR)

\* The advance of a codepoint and the kerning of a pair, as the font's
\* rasterizers give them.
Advance(c) ==
    LET q == GetRasterizerGlyphData(Self, c)
    IN  RoundDiv(q.gd.advance, q.dpiscale)

Kerning(l, r) == GetKerningIn(Self, l, r).k

\* Sum of the advances plus the kerning of a text free of newlines and
\* carriage returns, the glyph before the first being 0.
RECURSIVE TextWidth(_)
TextWidth(cps) ==
    IF cps = <<>> THEN 0
    ELSE LET n == Len(cps)
         IN  TextWidth(SubSeq(cps, 1, n - 1)) + Advance(cps[n])
             + Kerning(IF n = 1 THEN 0 ELSE cps[n - 1], cps[n])

RECURSIVE WithoutTrailingSpaces(_)
WithoutTrailingSpaces(cps) ==
    IF cps # <<>> /\ cps[Len(cps)] = SPACE
    THEN WithoutTrailingSpaces(SubSeq(cps, 1, Len(cps) - 1))
    ELSE cps

WrapText == call.arg.text.cps

WrapLines == call.ret.lines

WrapEvents == call.ret.events

\* C11 as stated: when a non-space codepoint exceeds the wrap width on an
\* empty line, the line closed there holds that codepoint, and getWrap goes
\* on with the next index.
C11_TooWideGlyphIncluded ==
    call.op = "getWrap" =>
        \A k \in 1..Len(WrapEvents) :
            WrapEvents[k].kind = "first" =>
                /\ WrapEvents[k].next = WrapEvents[k].i + 1
                /\ \E j \in 1..Len(WrapEvents[k].line) :
                      WrapEvents[k].line[j] = WrapEvents[k].c

\* The lines closed at the wrap limit.
WrapBreaks == {WrapEvents[k].nline : k \in 1..Len(WrapEvents)}

\* The codepoints of the lines n.. in order, a newline put back after each
\* line that an explicit newline closed.
RECURSIVE Rejoined(_)
Rejoined(n) ==
    IF n > Len(WrapLines) THEN <<>>
    ELSE WrapLines[n].cps
         \o (IF n < Len(WrapLines) /\ n \notin WrapBreaks THEN <<NEWLINE>> ELSE <<>>)
         \o Rejoined(n + 1)

\* C12 as stated: the lines of getWrap, rejoined, are the input without
\* its carriage returns, and every break made at the wrap limit is right
\* after a space or is a forced line of one glyph.
C12_WrapRoundTrip ==
    call.op = "getWrap" =>
        /\ Rejoined(1) = WithoutCR(WrapText)
        /\ \A k \in 1..Len(WrapEvents) :
              \/ /\ WrapEvents[k].kind = "rewind"
                 /\ WrapEvents[k].line[Len(WrapEvents[k].line)] = SPACE
              \/ /\ WrapEvents[k].kind = "first"
                 /\ Len(WrapEvents[k].line) = 1

IsShortText == call.op = "getWrap" /\ \A k \in 1..Len(WrapText) : WrapText[k] # NEWLINE

OneLineOf(cps) ==
    /\ Len(WrapLines) = 1
    /\ WrapLines[1].cps = cps
    /\ call.ret.linewidths =
          <<TextWidth(WithoutTrailingSpaces(WithoutCR(WrapText)))>>

\* C13 as stated: newline-free text whose total width is at most the wrap
\* width comes back as one line equal to the input (carriage returns
\* aside), its width the total less the trailing spaces.
C13_ShortTextOneLine ==
    (IsShortText /\ TextWidth(WithoutCR(WrapText)) <= call.arg.wraplimit)
        => OneLineOf(WithoutCR(WrapText))

\* Every part of the text up to a codepoint that is no space fits.
PrefixesFit ==
    \A k \in 1..Len(WithoutCR(WrapText)) :
        WithoutCR(WrapText)[k] # SPACE =>
            TextWidth(SubSeq(WithoutCR(WrapText), 1, k)) <= call.arg.wraplimit

\* C13 amended: newline-free text of which every part up to a non-space
\* codepoint is at most the wrap width wide comes back as one line, the
\* input without its carriage returns, its width the total less the
\* trailing spaces.
C13_FittingTextOneLine ==
    (IsShortText /\ PrefixesFit) => OneLineOf(WithoutCR(WrapText))

\* A text with a trailing space, wider than the wrap width only by that
\* space.
C13_Witness ==
    /\ IsShortText
    /\ PrefixesFit
    /\ Len(WrapText) >= 3
    /\ WrapText[Len(WrapText)] = SPACE
    /\ TextWidth(WithoutCR(WrapText)) > call.arg.wraplimit
    /\ call.ret.linewidths[1] > 0

NewlinesOf(cps) == Cardinality({k \in 1..Len(cps) : cps[k] = NEWLINE})

\* C14: getWrap returns as many widths as lines: one line per newline, one
\* per break at the wrap limit and the last line, which is pushed even
\* when it is empty.
C14_OneWidthPerLine ==
    call.op = "getWrap" =>
        /\ Len(call.ret.linewidths) = Len(WrapLines)
        /\ Len(WrapLines) = NewlinesOf(WrapText) + Len(WrapEvents) + 1
        /\ Len(WrapLines) >= NewlinesOf(WrapText) + 1

\* A text that ends with a newline: the last line is empty.
C14_Witness ==
    /\ call.op = "getWrap"
    /\ Len(WrapText) >= 2
    /\ WrapText[Len(WrapText)] = NEWLINE
    /\ WrapLines[Len(WrapLines)].cps = <<>>
    /\ Len(call.ret.linewidths) = 2

\* The color of the last span that starts at or before index i (from 0).
RECURSIVE ColorAt(_, _)
ColorAt(colors, i) ==
    IF colors = <<>> THEN White
    ELSE IF colors[Len(colors)].index <= i THEN colors[Len(colors)].color
    ELSE ColorAt(SubSeq(colors, 1, Len(colors) - 1), i)

\* C15: when the first color span of the input starts at index 0, every
\* codepoint of every line has under the line's spans the color it had
\* under the input's, and every non-empty line starts with a span at 0.
C15_ColorsFollowCodepoints ==
    (/\ call.op = "getWrap"
     /\ call.arg.text.colors # <<>>
     /\ call.arg.text.colors[1].index = 0) =>
        \A n \in 1..Len(WrapLines) :
            /\ \A j \in 1..Len(WrapLines[n].cps) :
                  /\ WrapLines[n].cps[j] = WrapText[call.ret.srcs[n][j] + 1]
                  /\ ColorAt(WrapLines[n].colors, j - 1)
                        = ColorAt(call.arg.text.colors, call.ret.srcs[n][j])
            /\ WrapLines[n].cps # <<>> =>
                  /\ WrapLines[n].colors # <<>>
                  /\ WrapLines[n].colors[1].index = 0
            /\ \A j \in 1..Len(WrapLines[n].colors) :
                  WrapLines[n].colors[j].index < Len(WrapLines[n].cps)

\* A span that began on the codepoint that overflowed: after the rewind
\* the next line starts in the earlier color and changes at its index 1.
C15_Witness ==
    /\ call.op = "getWrap"
    /\ Len(WrapEvents) = 1
    /\ WrapEvents[1].kind = "rewind"
    /\ Len(call.arg.text.colors) = 2
    /\ call.arg.text.colors[2].index = WrapEvents[1].i
    /\ WrapLines[2].colors = <<IndexedColor("red", 0), IndexedColor("blue", 1)>>

GenCommands == call.ret.commands

\* The vertices of a draw command.
VertexRange(cmd) == cmd.startvertex..(cmd.startvertex + cmd.vertexcount - 1)

\* C16: for a text without newlines, every vertex generateVertices emitted
\* (four for each visible glyph) lies in the range of exactly one draw
\* command, a command covers only glyphs of its texture, and the commands
\* are in ascending order of (texture, startvertex).
C16_CommandsPartitionVertices ==
    (call.op = "generateVertices" /\ NewlinesOf(call.arg) = 0) =>
        /\ Len(call.ret.vertices) = Len(SelectSeq(call.arg, IsVisible))
        /\ \A v \in 0..(4 * Len(call.ret.vertices) - 1) :
              Cardinality({k \in 1..Len(GenCommands) :
                              v \in VertexRange(GenCommands[k])}) = 1
        /\ \A k \in 1..Len(GenCommands) :
              /\ GenCommands[k].vertexcount > 0
              /\ \A v \in VertexRange(GenCommands[k]) :
                    /\ v < 4 * Len(call.ret.vertices)
                    /\ call.ret.vertices[(v \div 4) + 1].glyph.texture
                          = GenCommands[k].texture
        /\ \A k \in 1..(Len(GenCommands) - 1) :
              \/ GenCommands[k].texture < GenCommands[k + 1].texture
              \/ /\ GenCommands[k].texture = GenCommands[k + 1].texture
                 /\ GenCommands[k].startvertex < GenCommands[k + 1].startvertex

\* Glyphs of two textures, the later texture first in the text.
C16_Witness ==
    /\ call.op = "generateVertices"
    /\ NewlinesOf(call.arg) = 0
    /\ Len(GenCommands) = 2
    /\ GenCommands[1].startvertex > GenCommands[2].startvertex

\* C19: generateVertices returns, and its walk restarted at most once for
\* every replacement of the texture by a larger one made during the call,
\* which are at most the growth steps left from the atlas size the call
\* began with.
C19_RestartsBoundedByGrowth ==
    call.op = "generateVertices" =>
        /\ call.ret.restarts <= Cardinality(Recreates)
        /\ Cardinality(Recreates) <= StepsLeft(call.log.width0, call.log.height0)

\* A call that restarted as often as the atlas could still grow.
C19_Witness ==
    /\ call.op = "generateVertices"
    /\ call.ret.restarts >= 1
    /\ call.ret.restarts = StepsLeft(call.log.width0, call.log.height0)

\* The width of each line of a string, carriage returns left out.
LineSums(str) ==
    {TextWidth(WithoutCR(GetLines(str)[n])) : n \in 1..Len(GetLines(str))}

\* C18: getWidth of a string without newlines is the sum of the advances
\* of its codepoints other than carriage returns plus the kerning of every
\* codepoint with the one before it (0 before the first); with newlines,
\* it is the largest such sum among the lines.  The empty string has
\* width 0.
C18_WidthIsAdvancesPlusKerning ==
    call.op = "getWidth" =>
        /\ NewlinesOf(call.arg) = 0 => call.ret = TextWidth(WithoutCR(call.arg))
        /\ call.arg # <<>> =>
              /\ call.ret \in LineSums(call.arg)
              /\ \A w \in LineSums(call.arg) : w <= call.ret

\* A string with a pair of codepoints that has kerning.
C18_Witness ==
    /\ call.op = "getWidth"
    /\ Len(call.arg) = 2
    /\ Kerning(call.arg[1], call.arg[2]) # 0
    /\ call.ret = Advance(call.arg[1]) + Advance(call.arg[2])
                     + Kerning(call.arg[1], call.arg[2])

\* Every glyph of the text has advance 10 and no pair has kerning.
AllAdvanceTen(cps) ==
    /\ \A k \in 1..Len(cps) : Advance(cps[k]) = 10
    /\ \A k \in 1..Len(cps), m \in 1..Len(cps) : Kerning(cps[k], cps[m]) = 0

\* C20: a line closed by a rewind is the line up to and with the last space
\* seen, nothing after it; its width is the width of the line without the
\* spaces at its end; and getWrap goes on at the index after that space.
\* "ab cd" at width 25 with advances of 10 gives "ab " (20) and "cd" (20).
C20_RewindToLastSpace ==
    call.op = "getWrap" =>
        /\ \A e \in 1..Len(WrapEvents) :
              WrapEvents[e].kind = "rewind" =>
                  LET ev == WrapEvents[e]
                      n == Len(ev.line)
                  IN  /\ n >= 1
                      /\ n <= Len(ev.before)
                      /\ ev.line = SubSeq(ev.before, 1, n)
                      /\ ev.line[n] = SPACE
                      /\ \A k \in (n + 1)..Len(ev.before) : ev.before[k] # SPACE
                      /\ WrapLines[ev.nline].cps = ev.line
                      /\ call.ret.srcs[ev.nline][n] = ev.lastspaceindex
                      /\ WrapText[ev.lastspaceindex + 1] = SPACE
                      /\ ev.next = ev.lastspaceindex + 1
                      /\ ev.width = TextWidth(WithoutTrailingSpaces(ev.line))
                      /\ call.ret.linewidths[ev.nline] = ev.width
        /\ (/\ WrapText = WordsText
            /\ call.arg.wraplimit = 25
            /\ AllAdvanceTen(WordsText)) =>
              /\ Len(WrapLines) = 2
              /\ WrapLines[1].cps = <<CpA, CpB, SPACE>>
              /\ WrapLines[2].cps = <<CpC, CpD>>
              /\ call.ret.linewidths = <<20, 20>>

\* The example: "ab cd" wrapped at 25 by a font of advance 10.
C20_Witness ==
    /\ call.op = "getWrap"
    /\ WrapText = WordsText
    /\ call.arg.wraplimit = 25
    /\ AllAdvanceTen(WordsText)
    /\ Len(WrapEvents) = 1
    /\ WrapEvents[1].kind = "rewind"
    /\ WrapEvents[1].c = CpC
    /\ WrapEvents[1].before = <<CpA, CpB, SPACE>>

FormatPasses == call.ret.passes

\* The codepoints of the lines of a pass that have a quad.
RECURSIVE VisibleIn(_)
VisibleIn(lines) ==
    IF lines = <<>> THEN <<>>
    ELSE VisibleIn(SubSeq(lines, 1, Len(lines) - 1))
            \o SelectSeq(lines[Len(lines)].cps, IsVisible)

\* C17: generateVerticesFormatted makes a second pass exactly when
\* textureCacheID changed during the first one, and never a third: the
\* second pass sees no change.  What it returns is the work of the last
\* pass alone: one quad for each visible codepoint of its lines, each one
\* the cached glyph and emitted under the current textureCacheID, and draw
\* commands that cover these quads only.
C17_FormattedRestartsOnce ==
    call.op = "generateVerticesFormatted" =>
        /\ Len(FormatPasses) \in {1, 2}
        /\ Len(FormatPasses) = 2 <=> textureCacheID # call.log.cacheid0
        /\ FormatPasses[1].changed <=> Len(FormatPasses) = 2
        /\ ~FormatPasses[Len(FormatPasses)].changed
        /\ LET quads == call.ret.vertices
               drawn == VisibleIn(FormatPasses[Len(FormatPasses)].lines)
           IN  /\ Len(quads) = Len(drawn)
               /\ \A k \in 1..Len(quads) :
                     /\ quads[k].g = drawn[k]
                     /\ quads[k].glyph = glyphs[quads[k].g]
                     /\ quads[k].cacheid = textureCacheID
               /\ \A k \in 1..Len(call.ret.commands) :
                     /\ call.ret.commands[k].texture \in TextureIds
                     /\ call.ret.commands[k].startvertex
                           + call.ret.commands[k].vertexcount <= 4 * Len(quads)

\* The atlas grew while the first pass wrapped the text; the second pass
\* returned the quads of two lines.
C17_Witness ==
    /\ call.op = "generateVerticesFormatted"
    /\ Len(FormatPasses) = 2
    /\ FormatPasses[1].changed
    /\ Len(FormatPasses[2].lines) = 2
    /\ Len(call.ret.vertices) >= 3

\* C21: every createTexture call that replaced a texture found exactly one
\* texture; a call that found two or more appended; and the textures of
\* the font are those the first createTexture of the method call found
\* plus one for every call that appended, so that a replacement leaves one
\* texture and growth never removes one.
C21_ReplaceOnlySingleTexture ==
    /\ \A i \in 1..Len(Creates) :
          /\ Creates[i].recreate => Creates[i].ntextures = 1
          /\ Creates[i].ntextures >= 2 => ~Creates[i].recreate
    /\ Creates # <<>> =>
          /\ Len(textures) = Creates[1].ntextures
                + Cardinality({i \in 1..Len(Creates) : ~Creates[i].recreate})
          /\ Creates[Len(Creates)].recreate => Len(textures) = 1
    /\ Len(textures) >= 2 => StepsLeft(textureWidth, textureHeight) = 0

\* createTexture was called with two textures in the atlas.
C21_Witness ==
    /\ call.op = "findGlyph"
    /\ Len(textures) = 3
    /\ Creates[1].ntextures = 2

\* C22: a glyph resolution during which createTexture replaced the texture
\* leaves cached every codepoint that was cached before, with the advance
\* it had, next to the one resolved; and after every method call each
\* cached glyph that has a texture has one of the font's current textures.
C22_GlyphsSurviveReplacement ==
    [][/\ (call'.op = "findGlyph"
             /\ \E i \in 1..Len(call'.log.creates) : call'.log.creates[i].recreate) =>
              /\ DOMAIN glyphs' = DOMAIN glyphs \cup {call'.arg}
              /\ \A c \in DOMAIN glyphs :
                    /\ glyphs'[c].spacing = glyphs[c].spacing
                    /\ (glyphs'[c].texture = NoTexture)
                          <=> (glyphs[c].texture = NoTexture)
       /\ \A c \in DOMAIN glyphs' :
              glyphs'[c].texture # NoTexture =>
                  \E i \in 1..Len(textures') : textures'[i].id = glyphs'[c].texture
      ]_vars

\* Two glyphs with a bitmap were cached when the texture was replaced.
C22_Witness ==
    /\ call.op = "findGlyph"
    /\ Recreates # {}
    /\ Cardinality(VisibleGlyphs) >= 3
    /\ \A c \in VisibleGlyphs : glyphs[c].texture \in TextureIds

\* C23: a glyph resolution during which createTexture appended a texture
\* called createTexture once; the textures there were stay, in their
\* order, before the new one; every glyph record cached before is
\* unchanged; the texture size and textureCacheID are unchanged; and the
\* glyph resolved lies at the padding origin of the new last texture, where
\* the cursor stays when the glyph has no bitmap.
C23_AppendLeavesAtlasAlone ==
    [][(/\ call'.op = "findGlyph"
        /\ call'.log.creates # <<>>
        /\ \A i \in 1..Len(call'.log.creates) : ~call'.log.creates[i].recreate) =>
            /\ Len(call'.log.creates) = 1
            /\ Len(textures') = Len(textures) + 1
            /\ SubSeq(textures', 1, Len(textures)) = textures
            /\ \A i \in 1..Len(textures) :
                  textures'[Len(textures')].id # textures[i].id
            /\ DOMAIN glyphs' = DOMAIN glyphs \cup {call'.arg}
            /\ \A c \in DOMAIN glyphs : glyphs'[c] = glyphs[c]
            /\ textureWidth' = textureWidth
            /\ textureHeight' = textureHeight
            /\ textureCacheID' = textureCacheID
            /\ IF glyphs'[call'.arg].texture # NoTexture
               THEN /\ glyphs'[call'.arg].texture = textures'[Len(textures')].id
                    /\ glyphs'[call'.arg].x = TEXTURE_PADDING
                    /\ glyphs'[call'.arg].y = TEXTURE_PADDING
               ELSE /\ textureX' = TEXTURE_PADDING
                    /\ textureY' = TEXTURE_PADDING
                    /\ rowHeight' = TEXTURE_PADDING
      ]_vars

\* A third texture was appended: the cached glyphs lie in three textures.
C23_Witness ==
    /\ call.op = "findGlyph"
    /\ AppendGrowths # {}
    /\ Len(textures) = 3
    /\ Cardinality({glyphs[c].texture : c \in VisibleGlyphs}) = 3

\* The largest size the atlas texture grows to from a size.
RECURSIVE FinalSize(_, _)
FinalSize(w, h) ==
    IF w = h /\ 2 * w <= Min(HardMaxWidth, maxsize) THEN FinalSize(2 * w, h)
    ELSE IF w # h /\ 2 * h <= Min(HardMaxHeight, maxsize) THEN FinalSize(w, 2 * h)
    ELSE [width |-> w, height |-> h]

\* The bitmap of the glyph with its padding is not smaller than the
\* largest atlas texture.
Oversized(c) ==
    LET gd == GetRasterizerGlyphData(Self, c).gd
        max == FinalSize(call.log.width0, call.log.height0)
    IN  \/ gd.width + TEXTURE_PADDING * 2 >= max.width
        \/ gd.height + TEXTURE_PADDING * 2 >= max.height

\* C24: a glyph resolution returns with the glyph cached, whatever the
\* size of its bitmap; it called createTexture at most once for every
\* growth step left when it began and once more for every cached glyph,
\* and retried to no greater depth than the growth steps left plus one;
\* and a glyph that with its padding is not smaller than the largest
\* atlas texture caused no createTexture call at all.
C24_ResolutionBounded ==
    call.op = "findGlyph" =>
        /\ call.arg \in DOMAIN glyphs
        /\ Len(Creates)
              <= StepsLeft(call.log.width0, call.log.height0)
                    + Cardinality(DOMAIN glyphs)
        /\ call.log.retry <= StepsLeft(call.log.width0, call.log.height0) + 1
        /\ Oversized(call.arg) => Creates = <<>> /\ call.log.retry = 0

\* A glyph wider than the largest texture, resolved when the third
\* texture of the atlas held a glyph already.
C24_Witness ==
    /\ call.op = "findGlyph"
    /\ Oversized(call.arg)
    /\ IsVisible(call.arg)
    /\ Len(textures) = 3
    /\ glyphs[call.arg].x > TEXTURE_PADDING

WrapStarts == call.ret.starts

\* C25: getWrap returns for every text and every wrap width, zero and
\* negative ones included: every line after the first was begun at a
\* greater index of the input than the line before it, the line after one
\* closed at the wrap limit as well, so there are at most as many lines as
\* codepoints, and one.
C25_WrapAdvances ==
    call.op = "getWrap" =>
        /\ Len(WrapStarts) = Len(WrapLines)
        /\ WrapStarts[1] = 0
        /\ \A n \in 1..(Len(WrapStarts) - 1) : WrapStarts[n] < WrapStarts[n + 1]
        /\ \A n \in 1..Len(WrapStarts) : WrapStarts[n] <= Len(WrapText)
        /\ \A e \in 1..Len(WrapEvents) :
              /\ WrapEvents[e].nline < Len(WrapLines)
              /\ WrapStarts[WrapEvents[e].nline] < WrapEvents[e].next
              /\ WrapStarts[WrapEvents[e].nline + 1] = WrapEvents[e].next
        /\ Len(WrapLines) <= Len(WrapText) + 1

\* A negative wrap width: the line with the space is closed by a rewind
\* to the index of the codepoint that overflowed, which is then skipped.
C25_Witness ==
    /\ call.op = "getWrap"
    /\ call.arg.wraplimit < 0
    /\ Len(WrapEvents) >= 2
    /\ WrapEvents[1].kind = "rewind"
    /\ WrapEvents[1].next = WrapEvents[1].i
    /\ WrapEvents[2].kind = "first"

\* The bitmap of the glyph has no width or no height.
IsEmptyGlyph(c) ==
    LET gd == GetRasterizerGlyphData(Self, c).gd
    IN  gd.width = 0 \/ gd.height = 0

\* C26 as stated: resolving a glyph that is not cached and has no width
\* or no height gives a record without texture and leaves the packing
\* cursor, the textures and textureCacheID as they were.
C26_EmptyGlyphTakesNoSpace ==
    [][(/\ call'.op = "findGlyph"
        /\ call'.arg \notin DOMAIN glyphs
        /\ IsEmptyGlyph(call'.arg)) =>
            /\ glyphs'[call'.arg].texture = NoTexture
            /\ UNCHANGED <<textureX, textureY, rowHeight, textures, textureCacheID>>
      ]_vars

\* C27: in every pass of generateVerticesFormatted, the width getWrap
\* recorded for a line is at least 0 and at most the wrap width (a negative
\* one counted as 0), and the x offset of every line is not negative.
C27_LinesWithinWrap ==
    call.op = "generateVerticesFormatted" =>
        \A p \in 1..Len(FormatPasses) :
            /\ Len(FormatPasses[p].widths) = Len(FormatPasses[p].lines)
            /\ Len(FormatPasses[p].offsets) = Len(FormatPasses[p].lines)
            /\ \A n \in 1..Len(FormatPasses[p].lines) :
                  /\ FormatPasses[p].widths[n] >= 0
                  /\ FormatPasses[p].widths[n] <= Max(call.arg.wrap, 0)
                  /\ FormatPasses[p].offsets[n] >= 0

\* Two centered lines, narrower than the wrap width.
C27_Witness ==
    /\ call.op = "generateVerticesFormatted"
    /\ call.arg.align = "center"
    /\ Len(FormatPasses[1].lines) = 2
    /\ FormatPasses[1].offsets[1] > 0
    /\ FormatPasses[1].offsets[2] > 0
    /\ FormatPasses[1].widths[2] > 0

\* C28: when a generateVertices call restarted its walk, the next call
\* with the same arguments does not restart and returns the same draw
\* commands, the same vertices and the same metrics.
C28_RestartedEqualsWarm ==
    [][(/\ call.op = "generateVerticesColored"
        /\ call.ret.restarts >= 1
        /\ call'.op = "generateVerticesColored"
        /\ call'.arg = call.arg) =>
            /\ call'.ret.restarts = 0
            /\ call'.ret.commands = call.ret.commands
            /\ call'.ret.vertices = call.ret.vertices
            /\ call'.ret.info = call.ret.info
            /\ UNCHANGED <<textures, glyphs, textureCacheID>>
      ]_vars

\* A call that restarted after the color had changed and the pen had
\* moved from its offset, and returned quads in two colors.
C28_Witness ==
    /\ call.op = "generateVerticesColored"
    /\ call.ret.restarts >= 1
    /\ call.arg.colors # <<>>
    /\ call.arg.offset = <<5, 7>>
    /\ call.arg.cps = <<CpA, CpB, CpC>>
    /\ Len(call.ret.vertices) = 3
    /\ call.ret.vertices[1].color # call.ret.vertices[2].color

====
